---- MODULE Spec2Model ----
(***************************************************************************)
(* Model of RocketSimulationAlyGaber.py: the cargo loader load_rocket and  *)
(* the trajectory printer projectile_sim.                                  *)
(*                                                                         *)
(* Python floats are modelled as fixed-point integers:                     *)
(*   weights            in 0.001 kg                                        *)
(*   volumes            in 0.001 m^3                                       *)
(*   item dimensions    in 0.1 m   (so width*length*height is 0.001 m^3)   *)
(*   radius, height_cyl in 0.01 m  (feet_to_meter delivers two decimals)   *)
(*   times              in 0.5 s, sin(angle) in 0.01, heights in 0.01 m    *)
(* A comparison against a fractional threshold is cross-multiplied, so it  *)
(* is decided exactly.                                                     *)
(***************************************************************************)
EXTENDS Integers, Sequences, FiniteSets

VARIABLES
    \* ---- load_rocket ----
    rocket_initial_weight,   \* parameter
    radius,                  \* parameter
    height_cyl,              \* parameter
    storage_volume,          \* local, line 244-245
    total_weight,            \* local, line 246
    total_volume,            \* local, line 247
    weight_of_all_items,     \* local, line 248: the pending weight accumulator
    volume_of_all_items,     \* local, line 249: the pending volume accumulator
    item_weight,             \* local, line 273
    item_width,              \* local, line 274
    item_length,             \* local, line 275
    item_height,             \* local, line 276
    item_volume,             \* local, line 277
    pc,                      \* position in load_rocket
    retval,                  \* what load_rocket returned
    entered,                 \* the items typed at the prompts so far, with their fate
    \* ---- projectile_sim ----
    simulation_time,         \* parameter
    interval,                \* parameter
    velocity_i,              \* parameter
    sin_angle,               \* math.sin(angle), line 342
    step,                    \* the loop index of line 339
    printed,                 \* the heights printed so far, line 344
    ppc                      \* position in projectile_sim

loadVars == <<rocket_initial_weight, radius, height_cyl, storage_volume,
              total_weight, total_volume, weight_of_all_items,
              volume_of_all_items, item_weight, item_width, item_length,
              item_height, item_volume, pc, retval, entered>>

projVars == <<simulation_time, interval, velocity_i, sin_angle, step,
              printed, ppc>>

vars == <<loadVars, projVars>>

----------------------------------------------------------------------------
\* Bounds of the model

\* the longest sequence of items the user types in one loading session
MaxItems == 3

\* load_rocket's arguments (0.001 kg; 0.01 m)
RocketWeights == {0, 300000, 800000, 12000000}
Radii == {0, 100, 200}
CylinderHeights == {0, 200}

\* what the user types for an item (0.001 kg; 0.1 m)
ItemWeights == {10000, 20000, 20004, 30000, 600000}
ItemWidths == {5, 10}
ItemLengths == {5, 10}
ItemHeights == {0, 5, 10}

----------------------------------------------------------------------------
\* Program constants, lines 14-19, in the model's units

WEIGHT_THRESHOLD_PERCENT == 5     \* WEIGHT_THRESHOLD_MAXIMUM = 0.05
VOLUME_THRESHOLD_PERCENT == 40    \* VOLUME_THRESHOLD_MAXIMUM = 0.4
MAX_BOX_WEIGHT == 500000          \* 500 kg
MIN_BOX_WEIGHT == 20000           \* 20 kg
MIN_BOX_VOLUME == 125             \* 0.125 m^3
GRAVITY_CONSTANT == 981           \* 9.81, in 0.01 m/s^2

----------------------------------------------------------------------------
\* Arithmetic helpers

Abs(n) == IF n < 0 THEN -n ELSE n

\* Python's round(): n/d to the nearest integer, ties to the even one (d > 0)
RoundHalfEven(n, d) ==
    LET q == n \div d
        r == n % d
    IN  IF 2 * r < d THEN q
        ELSE IF 2 * r > d THEN q + 1
        ELSE IF q % 2 = 0 THEN q ELSE q + 1

\* round(x, 2) of a weight held in 0.001 kg
Round2(x) == 10 * RoundHalfEven(x, 10)

\* round(math.sqrt(2) * r, 2) with r and the result in 0.01 m
RoundSqrt2(r) ==
    LET a == Abs(r)
        n == CHOOSE k \in 0..(2 * a) :
                 /\ (k = 0 \/ (2 * k - 1) * (2 * k - 1) <= 8 * a * a)
                 /\ 8 * a * a < (2 * k + 1) * (2 * k + 1)
    IN  IF r < 0 THEN -n ELSE n

\* compute_storage_space(radius, height_cyl): <<width, length, height>> in 0.01 m
compute_storage_space(r, h) ==
    LET storage_length == RoundSqrt2(r)
        storage_width == storage_length
        storage_height == RoundHalfEven(h, 2)
    IN  <<storage_width, storage_length, storage_height>>

\* lines 242-245: the storage volume, rounded to two decimals, in 0.001 m^3
StorageVolume(r, h) ==
    LET s == compute_storage_space(r, h)
    IN  10 * RoundHalfEven(s[1] * s[2] * s[3], 10000)

----------------------------------------------------------------------------
\* load_rocket

\* lines 251-254: the while condition
LoopCondition(riw, sv, tw, tv) ==
    /\ 100 * tw < 100 * riw + riw * WEIGHT_THRESHOLD_PERCENT
    /\ 100 * tv < 100 * sv + sv * VOLUME_THRESHOLD_PERCENT

\* lines 255-256: the remaining weight budget admits no box
PreCheckWeight(riw, pw) ==
    riw * WEIGHT_THRESHOLD_PERCENT - 100 * pw < 100 * MIN_BOX_WEIGHT

\* lines 260-261: the remaining volume budget admits no box
PreCheckVolume(sv, pv) ==
    sv * VOLUME_THRESHOLD_PERCENT - 100 * pv < 100 * MIN_BOX_VOLUME

\* line 277
ItemVolume(wd, ln, ht) == wd * ln * ht

\* lines 278-279: the item is added to the pending accumulator before any check
AddPending_ItemOnly(pending, item) == item

AddPending(pending, item) == pending + item

\* lines 281-292: which branch the item takes; pw and pv already include it
Validate_NoUpperBound(riw, sv, w, pw, vol, pv) ==
    IF w < MIN_BOX_WEIGHT \/ 100 * pw > riw * WEIGHT_THRESHOLD_PERCENT
    THEN "rejected_weight"
    ELSE IF vol < MIN_BOX_VOLUME \/ 100 * pv > sv * VOLUME_THRESHOLD_PERCENT
    THEN "rejected_volume"
    ELSE "accepted"

Validate(riw, sv, w, pw, vol, pv) ==
    IF \/ w < MIN_BOX_WEIGHT
       \/ w > MAX_BOX_WEIGHT
       \/ 100 * pw > riw * WEIGHT_THRESHOLD_PERCENT
    THEN "rejected_weight"
    ELSE IF \/ vol < MIN_BOX_VOLUME
            \/ 100 * pv > sv * VOLUME_THRESHOLD_PERCENT
    THEN "rejected_volume"
    ELSE "accepted"

\* lines 284, 289: a rejecting branch takes the item out of its own accumulator
RevertPending(pending, item, outcome, branch) ==
    IF outcome = branch THEN pending - item ELSE pending

\* lines 293-294: only the accepting branch folds the pending total in
FoldTotal_Always(total, pending, outcome) == total + pending

FoldTotal_Assign(total, pending, outcome) ==
    IF outcome = "accepted" THEN pending ELSE total

FoldTotal(total, pending, outcome) ==
    IF outcome = "accepted" THEN total + pending ELSE total

NotReturned == [kind |-> "pending", val |-> 0]
ReturnNone == [kind |-> "None", val |-> 0]
ReturnFloat(x) == [kind |-> "float", val |-> x]

\* projectile_sim has not been called
ProjIdle ==
    /\ simulation_time = 0
    /\ interval = 1
    /\ velocity_i = 0
    /\ sin_angle = 0
    /\ step = 0
    /\ printed = <<>>
    /\ ppc = "idle"

\* lines 242-249
Init ==
    /\ rocket_initial_weight \in RocketWeights
    /\ radius \in Radii
    /\ height_cyl \in CylinderHeights
    /\ storage_volume = StorageVolume(radius, height_cyl)
    /\ total_weight = rocket_initial_weight
    /\ total_volume = storage_volume
    /\ weight_of_all_items = 0
    /\ volume_of_all_items = 0
    /\ item_weight = 0
    /\ item_width = 0
    /\ item_length = 0
    /\ item_height = 0
    /\ item_volume = 0
    /\ pc = "while"
    /\ retval = NotReturned
    /\ entered = <<>>
    /\ ProjIdle

itemVars == <<item_weight, item_width, item_length, item_height, item_volume>>
stateVars == <<total_weight, total_volume, weight_of_all_items,
               volume_of_all_items>>
paramVars == <<rocket_initial_weight, radius, height_cyl, storage_volume>>

\* lines 251-254: the loop goes on
WhileEnter ==
    /\ pc = "while"
    /\ LoopCondition(rocket_initial_weight, storage_volume,
                     total_weight, total_volume)
    /\ pc' = "precheck"
    /\ UNCHANGED <<paramVars, stateVars, itemVars, retval, entered, projVars>>

\* lines 251-254, 295: the loop ends and the function body ends with it
WhileExit ==
    /\ pc = "while"
    /\ ~LoopCondition(rocket_initial_weight, storage_volume,
                      total_weight, total_volume)
    /\ pc' = "end_of_function"
    /\ retval' = ReturnNone
    /\ UNCHANGED <<paramVars, stateVars, itemVars, entered, projVars>>

\* lines 255-258
PreCheckWeightReturn ==
    /\ pc = "precheck"
    /\ PreCheckWeight(rocket_initial_weight, weight_of_all_items)
    /\ pc' = "return_258"
    /\ retval' = ReturnFloat(Round2(total_weight))
    /\ UNCHANGED <<paramVars, stateVars, itemVars, entered, projVars>>

\* lines 260-263
PreCheckVolumeReturn ==
    /\ pc = "precheck"
    /\ ~PreCheckWeight(rocket_initial_weight, weight_of_all_items)
    /\ PreCheckVolume(storage_volume, volume_of_all_items)
    /\ pc' = "return_263"
    /\ retval' = ReturnFloat(Round2(total_weight))
    /\ UNCHANGED <<paramVars, stateVars, itemVars, entered, projVars>>

\* lines 265-267: both pre-checks pass, the prompt is shown
PreCheckPass ==
    /\ pc = "precheck"
    /\ ~PreCheckWeight(rocket_initial_weight, weight_of_all_items)
    /\ ~PreCheckVolume(storage_volume, volume_of_all_items)
    /\ pc' = "input"
    /\ UNCHANGED <<paramVars, stateVars, itemVars, retval, entered, projVars>>

\* lines 269-270: the user types "Done"
EnterDone ==
    /\ pc = "input"
    /\ pc' = "return_270"
    /\ retval' = ReturnFloat(Round2(total_weight))
    /\ UNCHANGED <<paramVars, stateVars, itemVars, entered, projVars>>

\* lines 273-294: the user types an item
EnterItem(w, wd, ln, ht) ==
    /\ pc = "input"
    /\ Len(entered) < MaxItems
    /\ LET vol == ItemVolume(wd, ln, ht)
           pw == AddPending(weight_of_all_items, w)
           pv == AddPending(volume_of_all_items, vol)
           outcome == Validate(rocket_initial_weight, storage_volume,
                               w, pw, vol, pv)
       IN  /\ item_weight' = w
           /\ item_width' = wd
           /\ item_length' = ln
           /\ item_height' = ht
           /\ item_volume' = vol
           /\ weight_of_all_items' =
                  RevertPending(pw, w, outcome, "rejected_weight")
           /\ volume_of_all_items' =
                  RevertPending(pv, vol, outcome, "rejected_volume")
           /\ total_weight' = FoldTotal(total_weight, pw, outcome)
           /\ total_volume' = FoldTotal(total_volume, pv, outcome)
           /\ entered' = Append(entered, [weight |-> w, outcome |-> outcome])
    /\ pc' = "while"
    /\ UNCHANGED <<paramVars, retval, projVars>>

Next ==
    \/ WhileEnter
    \/ WhileExit
    \/ PreCheckWeightReturn
    \/ PreCheckVolumeReturn
    \/ PreCheckPass
    \/ EnterDone
    \/ \E w \in ItemWeights, wd \in ItemWidths, ln \in ItemLengths,
          ht \in ItemHeights : EnterItem(w, wd, ln, ht)

Spec == Init /\ [][Next]_vars

----------------------------------------------------------------------------
\* Properties of load_rocket

Terminal == {"return_258", "return_263", "return_270", "end_of_function"}

Rejections == {"rejected_weight", "rejected_volume"}

\* the fate of the item typed last
LastOutcome == entered[Len(entered)].outcome

\* one pass through lines 273-294
ItemStep == pc = "input" /\ pc' = "while"

Outcomes == {entered[i].outcome : i \in 1..Len(entered)}

\* sum over i of (w1 + ... + wi) for the weights of the sequence s
RECURSIVE CompoundSum(_)
CompoundSum(s) ==
    IF s = <<>> THEN 0
    ELSE s[1].weight * Len(s) + CompoundSum(Tail(s))

\* C1: every way load_rocket terminates returns a number, the final
\* total_weight (as the return statements deliver it, rounded to two
\* decimals); no termination path ends without returning it.
C1_EveryExitReturnsTotalWeight ==
    pc \in Terminal =>
        /\ retval.kind = "float"
        /\ retval.val = Round2(total_weight)

\* C2: when an item is rejected, by the weight check or by the volume check,
\* total_weight and total_volume after the iteration equal their values
\* before the item was read.
C2_RejectionKeepsTotals ==
    [][(ItemStep /\ LastOutcome' \in Rejections) =>
           /\ total_weight' = total_weight
           /\ total_volume' = total_volume]_vars

\* a rejection that follows an acceptance: the totals it must keep are not
\* the initial ones
C2_Witness ==
    /\ pc = "while"
    /\ Len(entered) >= 2
    /\ LastOutcome \in Rejections
    /\ "accepted" \in Outcomes
    /\ total_weight > rocket_initial_weight

\* C3: when an item is rejected, both pending accumulators after the
\* iteration equal their values before the item was tentatively added.
C3_RejectionRestoresPending ==
    [][(ItemStep /\ LastOutcome' \in Rejections) =>
           /\ weight_of_all_items' = weight_of_all_items
           /\ volume_of_all_items' = volume_of_all_items]_vars

\* C4: an item is accepted, its pending totals folded into the totals, if
\* and only if 20 <= item_weight <= 500, the pending weight including it is
\* within the weight budget, item_volume = width*length*height >= 0.125 and
\* the pending volume including it is within the volume budget; the weight
\* check comes first and the volume check is made only when it passes.
C4_AcceptedIffWithinLimits ==
    [][ItemStep =>
        LET pw == weight_of_all_items + item_weight'
            pv == volume_of_all_items + item_volume'
            weightOK ==
                /\ item_weight' >= MIN_BOX_WEIGHT
                /\ item_weight' <= MAX_BOX_WEIGHT
                /\ 100 * pw <= rocket_initial_weight * WEIGHT_THRESHOLD_PERCENT
            volumeOK ==
                /\ item_volume' >= MIN_BOX_VOLUME
                /\ 100 * pv <= storage_volume * VOLUME_THRESHOLD_PERCENT
            folded ==
                /\ total_weight' = total_weight + pw
                /\ total_volume' = total_volume + pv
            untouched ==
                /\ total_weight' = total_weight
                /\ total_volume' = total_volume
        IN  /\ item_volume' = item_width' * item_length' * item_height'
            /\ (LastOutcome' = "accepted") <=> (weightOK /\ volumeOK)
            /\ (LastOutcome' = "rejected_weight") <=> ~weightOK
            /\ (LastOutcome' = "rejected_volume") <=> (weightOK /\ ~volumeOK)
            /\ IF weightOK /\ volumeOK THEN folded ELSE untouched
            /\ pw > 0 => (folded <=> (weightOK /\ volumeOK))]_vars

\* a session that has seen all three branches
C4_Witness ==
    /\ pc = "while"
    /\ Outcomes = {"accepted", "rejected_weight", "rejected_volume"}

\* C5: with rocket_initial_weight > 0 and storage_volume > 0, the cargo weight
\* folded into the rocket is at most the weight budget and the folded cargo
\* volume is at most the volume budget, in every reachable state.
C5_CargoWithinBudgets ==
    (rocket_initial_weight > 0 /\ storage_volume > 0) =>
        /\ 100 * (total_weight - rocket_initial_weight)
               <= rocket_initial_weight * WEIGHT_THRESHOLD_PERCENT
        /\ 100 * (total_volume - storage_volume)
               <= storage_volume * VOLUME_THRESHOLD_PERCENT

\* C6: total_weight never decreases from one iteration to the next, so the
\* final total_weight is at least rocket_initial_weight.
C6_TotalWeightNeverDecreases ==
    /\ [](total_weight >= rocket_initial_weight)
    /\ [][total_weight' >= total_weight]_vars

\* a finished session in which the total grew and an item was rejected
C6_Witness ==
    /\ pc \in Terminal
    /\ total_weight > rocket_initial_weight
    /\ Outcomes \cap Rejections # {}

\* C7: if the weight budget is smaller than 20, load_rocket terminates on the
\* first pre-check of its first iteration, returning rocket_initial_weight,
\* without requesting any item.
C7_SmallBudgetReturnsAtFirstPreCheck ==
    (/\ rocket_initial_weight * WEIGHT_THRESHOLD_PERCENT < 100 * MIN_BOX_WEIGHT
     /\ pc \in Terminal) =>
        /\ pc = "return_258"
        /\ retval = ReturnFloat(rocket_initial_weight)
        /\ entered = <<>>

\* C8: a rejected item never ends the loading session: after a rejection the
\* loader goes on to ask for the next item, so the session can only end
\* there by the user's "Done".
C8_RejectionNeverEndsSession ==
    (Len(entered) > 0 /\ LastOutcome \in Rejections) =>
        pc \notin {"return_258", "return_263", "end_of_function"}

\* C10: an acceptance adds the whole pending totals, the item included, to
\* the totals and does not reset the pending accumulators; hence after n
\* accepted items w1..wn and no rejection, total_weight is
\* rocket_initial_weight + sum over i of (w1 + ... + wi).
C10_AcceptFoldsWholePending ==
    /\ [][(ItemStep /\ LastOutcome' = "accepted") =>
            /\ weight_of_all_items' = weight_of_all_items + item_weight'
            /\ volume_of_all_items' = volume_of_all_items + item_volume'
            /\ total_weight' = total_weight + weight_of_all_items + item_weight'
            /\ total_volume' = total_volume + volume_of_all_items + item_volume'
          ]_vars
    /\ [](Outcomes \subseteq {"accepted"} =>
            total_weight = rocket_initial_weight + CompoundSum(entered))

\* three accepted items in a row
C10_Witness ==
    /\ Len(entered) = 3
    /\ Outcomes = {"accepted"}
    /\ total_weight >
           rocket_initial_weight + entered[1].weight + entered[2].weight
                                 + entered[3].weight

----------------------------------------------------------------------------
\* projectile_sim

\* arguments of projectile_sim (0.5 s; m/s; sin(angle) in 0.01)
SimulationTimes == {-4, -1, 0, 3, 10, 20}
Intervals == {-2, 0, 1, 2, 3}
Velocities == {0, 10, 30}
Sines == {-71, 0, 50, 71, 100}

\* int(a / b): Python's int() cuts the quotient toward zero (b # 0)
TruncDiv(a, b) ==
    LET q == Abs(a) \div Abs(b)
    IN  IF (a < 0) # (b < 0) THEN -q ELSE q

\* line 339: the number of values of range(0, int(simulation_time/interval) + 1)
NumSteps(sim, intv) ==
    LET n == TruncDiv(sim, intv) + 1
    IN  IF n > 0 THEN n ELSE 0

\* lines 340-342: the height at loop index k, in 1/800 m
\* (time = k*interval/2 s, so -0.5*g*time^2 + v*sin*time = Height800/800)
Height800(k, intv, v, s) ==
    LET time == k * intv
    IN  (-GRAVITY_CONSTANT * time * time) + (4 * v * s * time)

\* line 344: round(height, 2), in 0.01 m
RoundedHeight(h800) == RoundHalfEven(h800, 8)

\* line 343: the test that lets a height be printed
Visible_Strict(h800) == h800 > 0

Visible(h800) == h800 >= 0

\* load_rocket is not running
LoadIdle ==
    /\ rocket_initial_weight = 0
    /\ radius = 0
    /\ height_cyl = 0
    /\ storage_volume = 0
    /\ total_weight = 0
    /\ total_volume = 0
    /\ weight_of_all_items = 0
    /\ volume_of_all_items = 0
    /\ item_weight = 0
    /\ item_width = 0
    /\ item_length = 0
    /\ item_height = 0
    /\ item_volume = 0
    /\ pc = "idle"
    /\ retval = NotReturned
    /\ entered = <<>>

\* the call of projectile_sim, line 298
ProjInit ==
    /\ LoadIdle
    /\ simulation_time \in SimulationTimes
    /\ interval \in Intervals
    /\ velocity_i \in Velocities
    /\ sin_angle \in Sines
    /\ step = 0
    /\ printed = <<>>
    /\ ppc = "range"

projParams == <<simulation_time, interval, velocity_i, sin_angle>>

\* line 339: simulation_time / interval raises ZeroDivisionError
RangeRaises ==
    /\ ppc = "range"
    /\ interval = 0
    /\ ppc' = "raised"
    /\ UNCHANGED <<loadVars, projParams, step, printed>>

\* line 339: the range is built
RangeBuilt ==
    /\ ppc = "range"
    /\ interval # 0
    /\ ppc' = "for"
    /\ UNCHANGED <<loadVars, projParams, step, printed>>

\* lines 339-344: the next height is not negative and is printed
PrintHeight ==
    /\ ppc = "for"
    /\ step < NumSteps(simulation_time, interval)
    /\ LET h == Height800(step, interval, velocity_i, sin_angle)
       IN  /\ Visible(h)
           /\ printed' = Append(printed, RoundedHeight(h))
    /\ step' = step + 1
    /\ UNCHANGED <<loadVars, projParams, ppc>>

\* lines 339-346: the next height is negative, the function returns
NegativeHeight ==
    /\ ppc = "for"
    /\ step < NumSteps(simulation_time, interval)
    /\ ~Visible(Height800(step, interval, velocity_i, sin_angle))
    /\ ppc' = "return_346"
    /\ UNCHANGED <<loadVars, projParams, step, printed>>

\* line 339: the range is used up
RangeExhausted ==
    /\ ppc = "for"
    /\ step >= NumSteps(simulation_time, interval)
    /\ ppc' = "end_of_function"
    /\ UNCHANGED <<loadVars, projParams, step, printed>>

ProjNext ==
    \/ RangeRaises
    \/ RangeBuilt
    \/ PrintHeight
    \/ NegativeHeight
    \/ RangeExhausted

ProjSpec == ProjInit /\ [][ProjNext]_vars

----------------------------------------------------------------------------
\* Properties of projectile_sim

\* floor(a / b) (b # 0)
FloorDiv(a, b) == IF b > 0 THEN a \div b ELSE (-a) \div (-b)

\* the printed heights are those of steps 0, 1, 2, ... in order, none of
\* them negative, and the function stops at the first negative height
PrintedIsPrefix ==
    /\ step = Len(printed)
    /\ \A i \in 1..Len(printed) :
           LET h == Height800(i - 1, interval, velocity_i, sin_angle)
           IN  /\ h >= 0
               /\ printed[i] = RoundedHeight(h)
               /\ printed[i] >= 0
    /\ ppc = "return_346" =>
           Height800(Len(printed), interval, velocity_i, sin_angle) < 0
    /\ ppc = "raised" => printed = <<>>

\* C9 as stated: the heights of steps 0, 1, 2, ... are emitted in order, at
\* most floor(simulation_time/interval) + 1 of them (none when that is not
\* positive), up to the first negative one, which is not emitted and after
\* which nothing is emitted.
C9_AtMostFloorPlusOne ==
    /\ PrintedIsPrefix
    /\ interval # 0 =>
           LET n == FloorDiv(simulation_time, interval) + 1
           IN  Len(printed) <= (IF n > 0 THEN n ELSE 0)

\* C9 as amended: the count is bounded by int(simulation_time/interval) + 1,
\* int() cutting toward zero, and by 0 when that is negative; a run that is
\* not cut short by a negative height emits exactly that many.
C9_AtMostTruncPlusOne ==
    /\ PrintedIsPrefix
    /\ interval # 0 =>
           LET n == TruncDiv(simulation_time, interval) + 1
               most == IF n > 0 THEN n ELSE 0
           IN  /\ Len(printed) <= most
               /\ ppc = "end_of_function" => Len(printed) = most

\* a run cut short by a negative height while steps were left, after
\* several heights were printed
C9_Witness ==
    /\ ppc = "return_346"
    /\ Len(printed) >= 3
    /\ Len(printed) < TruncDiv(simulation_time, interval) + 1
    /\ printed[Len(printed)] > 0

====
